---- MODULE Spec2Model ----
(***************************************************************************)
(* Model of the MongoDB -> Iceberg glue: the environment accessor          *)
(* (dataos_utils.py), the provider-dispatch writer (iceberg_writer.py)     *)
(* and the pipeline entry point with its sink callback (pipeline.py).      *)
(*                                                                         *)
(* Python dictionaries are functions over their key set, None is the       *)
(* string NoneVal, an f-string is the sequence of its parts, and an        *)
(* exception is a record [type, msg].  The external libraries (pyiceberg   *)
(* catalog, google.auth, dlt) are modelled by what the code hands them and *)
(* by a nondeterministic outcome (returns / raises).                       *)
(***************************************************************************)
EXTENDS Integers, Sequences, FiniteSets, TLC

VARIABLES
    env,      \* os.environ of the process
    writer,   \* the IcebergWriter object of the API client (self.catalog)
    tables,   \* the external catalog: table identifier -> rows
    last,     \* the last operation: its arguments, the calls it made, how it ended
    pc        \* position of the pipeline entry point

vars == <<env, writer, tables, last, pc>>

----------------------------------------------------------------------------
(* Bounds *)

\* longest batch handed to write
MaxRows == 1
\* largest table the catalog is let grow to by append
MaxTableRows == 2

----------------------------------------------------------------------------
(* Python values *)

NoneVal == "<None>"
EmptyDict == [k \in {} |-> ""]

\* dict.get(key, default)
Get(d, k, default) == IF k \in DOMAIN d THEN d[k] ELSE default

\* {**a, **b}: the keys of b win
Merge(a, b) == [k \in DOMAIN a \cup DOMAIN b |-> IF k \in DOMAIN b THEN b[k] ELSE a[k]]

NoError == [type |-> "none", msg |-> <<>>]
ValueError(parts) == [type |-> "ValueError", msg |-> parts]
\* attribute access on None
AttributeError(attr) ==
    [type |-> "AttributeError",
     msg |-> <<"'NoneType' object has no attribute '", attr, "'">>]
\* an exception raised inside an external library, propagating
ExternalError(what) == [type |-> "ExternalError", msg |-> <<what>>]

Raised(e) == e.type # "none"
\* the message contains the word w as one of its formatted parts
Mentions(e, w) == \E i \in 1..Len(e.msg) : e.msg[i] = w

----------------------------------------------------------------------------
(* dataos_utils.get_access_token *)

DefaultScopes == "https://www.googleapis.com/auth/cloud-platform"

\* scopes is None or a sized value; the credentials object is what is returned
get_access_token(service_account_file_path, scopes, tokenOk) ==
    LET effective == IF scopes = NoneVal \/ Len(scopes) < 1
                     THEN DefaultScopes ELSE scopes
        request == [file |-> service_account_file_path, scopes |-> effective]
    IN IF tokenOk
       THEN [value |-> request, requests |-> <<request>>, error |-> NoError]
       ELSE [value |-> request, requests |-> <<request>>,
             error |-> ExternalError("google.auth")]

----------------------------------------------------------------------------
(* iceberg_writer.IcebergWriter.__init__ *)

TokenExpiryOffset == 10000
CatalogName == "iceberg_catalog"
FsspecIO == "pyiceberg.io.fsspec.FsspecFileIO"

\* a variant that copies the region only when the connection carries one
S3ParamsRegionIfGiven(connection) ==
    [k \in {"uri", "s3.access-key-id", "s3.secret-access-key"}
           \cup (IF "region" \in DOMAIN connection THEN {"s3.region"} ELSE {}) |->
        CASE k = "uri" -> Get(connection, "metastore_url", "")
          [] k = "s3.access-key-id" -> Get(connection, "aws_access_key_id", "")
          [] k = "s3.secret-access-key" -> Get(connection, "aws_secret_access_key", "")
          [] k = "s3.region" -> connection["region"]]

S3Params(connection) ==
    [k \in {"uri", "s3.access-key-id", "s3.secret-access-key", "s3.region"} |->
        CASE k = "uri" -> Get(connection, "metastore_url", "")
          [] k = "s3.access-key-id" -> Get(connection, "aws_access_key_id", "")
          [] k = "s3.secret-access-key" -> Get(connection, "aws_secret_access_key", "")
          [] k = "s3.region" -> Get(connection, "region", "ap-south-1")]

AbfssParams(connection) ==
    [k \in {"py-io-impl", "adls.account-name", "adls.account-key", "uri"} |->
        CASE k = "py-io-impl" -> FsspecIO
          [] k = "adls.account-name" -> Get(connection, "azurestorageaccountname", "")
          [] k = "adls.account-key" -> Get(connection, "azurestorageaccountkey", "")
          [] k = "uri" -> Get(connection, "metastore_url", "")]

GcsParams(connection, access_token, token_expiry) ==
    [k \in {"py-io-impl", "uri", "gcs.project-id", "gcs.default-bucket-location",
            "gcs.oauth2.token-expires-at", "gcs.oauth2.token"} |->
        CASE k = "py-io-impl" -> FsspecIO
          [] k = "uri" -> Get(connection, "metastore_url", "")
          [] k = "gcs.project-id" -> Get(connection, "project-id", "")
          [] k = "gcs.default-bucket-location" -> Get(connection, "warehouse_path", "")
          [] k = "gcs.oauth2.token-expires-at" -> token_expiry
          [] k = "gcs.oauth2.token" -> access_token]

UnsupportedProviderInit ==
    ValueError(<<"Unsupported cloud provider. Supported providers are 's3', 'abfss', and 'gcp'.">>)

\* what constructing a writer does: the load_catalog calls made (name, params),
\* the token requests made, the resulting self.catalog, and the exception if any
Constructed(params, requests) ==
    [catalog |-> params, ok |-> TRUE, loads |-> <<[name |-> CatalogName, params |-> params]>>,
     tokens |-> requests, error |-> NoError]
NotConstructed(requests, e) ==
    [catalog |-> EmptyDict, ok |-> FALSE, loads |-> <<>>, tokens |-> requests, error |-> e]

\* a variant whose final branch falls back to S3 instead of raising
IcebergWriterInitFallback(connection, now, tokenOk) ==
    LET cloud_provider == Get(connection, "cloud_provider", NoneVal)
    IN IF cloud_provider = "abfss" THEN Constructed(AbfssParams(connection), <<>>)
       ELSE IF cloud_provider = "gcs" THEN
            LET t == get_access_token(Get(connection, "secret_file_path", ""),
                                      Get(connection, "scopes", NoneVal), tokenOk)
            IN IF Raised(t.error) THEN NotConstructed(t.requests, t.error)
               ELSE Constructed(GcsParams(connection, t.value, now + TokenExpiryOffset),
                                t.requests)
       ELSE Constructed(S3Params(connection), <<>>)

IcebergWriterInit(connection, now, tokenOk) ==
    LET cloud_provider == Get(connection, "cloud_provider", NoneVal)
    IN IF cloud_provider = "s3" THEN Constructed(S3Params(connection), <<>>)
       ELSE IF cloud_provider = "abfss" THEN Constructed(AbfssParams(connection), <<>>)
       ELSE IF cloud_provider = "gcs" THEN
            LET secret_file_path == Get(connection, "secret_file_path", "")
                scopes == Get(connection, "scopes", NoneVal)
                t == get_access_token(secret_file_path, scopes, tokenOk)
                token_expiry == now + TokenExpiryOffset
            IN IF Raised(t.error) THEN NotConstructed(t.requests, t.error)
               ELSE Constructed(GcsParams(connection, t.value, token_expiry), t.requests)
       ELSE NotConstructed(<<>>, UnsupportedProviderInit)

(* iceberg_writer.Writer.create_writer *)

UnsupportedProviderFactory ==
    ValueError(<<"Unsupported cloud provider. Supported providers are 's3', 'abfss' and 'gcs'.">>)

create_writer(connection, now, tokenOk) ==
    IF Get(connection, "cloud_provider", NoneVal) \in {"s3", "abfss", "gcs"}
    THEN IcebergWriterInit(connection, now, tokenOk)
    ELSE NotConstructed(<<>>, UnsupportedProviderFactory)

----------------------------------------------------------------------------
(* The external catalog (pyiceberg): a store from table identifier to rows.  *)
(* Each operation returns the call as the library saw it, the store after    *)
(* it, and whether it raised.                                                *)

CatalogCall(op, destination, schema, rows, ok) ==
    [op |-> op, dest |-> destination, schema |-> schema, rows |-> rows, ok |-> ok]

create_table_if_not_exists(cat, destination, schema, createOk) ==
    [call |-> CatalogCall("create_table_if_not_exists", destination, schema, <<>>, createOk),
     raised |-> ~createOk,
     table |-> destination,
     tables |-> IF createOk /\ destination \notin DOMAIN cat
                THEN cat @@ (destination :> <<>>) ELSE cat]

TableAppend(cat, table, rows, opOk) ==
    [call |-> CatalogCall("append", table, "", rows, opOk),
     raised |-> ~opOk,
     tables |-> IF opOk THEN [cat EXCEPT ![table] = @ \o rows] ELSE cat]

TableOverwrite(cat, table, rows, opOk) ==
    [call |-> CatalogCall("overwrite", table, "", rows, opOk),
     raised |-> ~opOk,
     tables |-> IF opOk THEN [cat EXCEPT ![table] = rows] ELSE cat]

----------------------------------------------------------------------------
(* iceberg_writer.IcebergWriter.validate_data *)

\* a variant that checks the type only
validate_data_type_only(input_data) ==
    IF ~input_data.columnar
    THEN [error |-> ValueError(<<"Input data must be a PyArrowTable.">>), stdout |-> <<>>]
    ELSE [error |-> NoError, stdout |-> << <<"Input data is valid for Iceberg.">> >>]

validate_data(input_data) ==
    IF ~input_data.columnar
    THEN [error |-> ValueError(<<"Input data must be a PyArrowTable.">>), stdout |-> <<>>]
    ELSE IF Len(input_data.rows) = 0
    THEN [error |-> ValueError(<<"Input data cannot be empty.">>), stdout |-> <<>>]
    ELSE [error |-> NoError, stdout |-> << <<"Input data is valid for Iceberg.">> >>]

(* iceberg_writer.IcebergWriter.create_table_from_pyarrow *)

\* a variant that asks the catalog only for tables it has not seen
create_table_from_pyarrow_if_new(cat, pyarrow_table, destination, createOk) ==
    LET r == create_table_if_not_exists(cat, destination, pyarrow_table.schema, createOk)
    IN IF destination \in DOMAIN cat
       THEN [table |-> destination, tables |-> cat, calls |-> <<>>, stdout |-> <<>>]
       ELSE IF r.raised
       THEN [table |-> NoneVal, tables |-> r.tables, calls |-> <<r.call>>,
             stdout |-> << <<"Exception while creating table '", destination, "'.">> >>]
       ELSE [table |-> r.table, tables |-> r.tables, calls |-> <<r.call>>, stdout |-> <<>>]

\* a variant that loads the table after a failed creation instead of returning nothing
create_table_from_pyarrow_load(cat, pyarrow_table, destination, createOk) ==
    LET r == create_table_if_not_exists(cat, destination, pyarrow_table.schema, createOk)
    IN IF r.raised /\ destination \notin DOMAIN cat
       THEN [table |-> NoneVal, tables |-> r.tables, calls |-> <<r.call>>,
             stdout |-> << <<"Exception while creating table '", destination, "'.">> >>]
       ELSE [table |-> r.table, tables |-> r.tables, calls |-> <<r.call>>, stdout |-> <<>>]

create_table_from_pyarrow(cat, pyarrow_table, destination, createOk) ==
    LET r == create_table_if_not_exists(cat, destination, pyarrow_table.schema, createOk)
    IN IF r.raised
       THEN [table |-> NoneVal, tables |-> r.tables, calls |-> <<r.call>>,
             stdout |-> << <<"Exception while creating table '", destination, "'.">> >>]
       ELSE [table |-> r.table, tables |-> r.tables, calls |-> <<r.call>>, stdout |-> <<>>]

(* iceberg_writer.IcebergWriter.write *)

WriteSuccess(destination, mode) ==
    <<"Data successfully written to Iceberg table '", destination, "' in ", mode, " mode.">>

WriteResult(cat, calls, error, stdout) ==
    [tables |-> cat, calls |-> calls, error |-> error, stdout |-> stdout]

\* a variant that overwrites whatever the operation asked for
DataOpOverwrite(c, op, input_data, opOk) ==
    IF c.table = NoneVal
    THEN [raised |-> TRUE, error |-> AttributeError(op), tables |-> c.tables, calls |-> <<>>]
    ELSE LET r == TableOverwrite(c.tables, c.table, input_data.rows, opOk)
         IN [raised |-> r.raised, error |-> ExternalError(op),
             tables |-> r.tables, calls |-> <<r.call>>]

\* a method call on what create_table_from_pyarrow returned: None has no methods
DataOp(c, op, input_data, opOk) ==
    IF c.table = NoneVal
    THEN [raised |-> TRUE, error |-> AttributeError(op), tables |-> c.tables, calls |-> <<>>]
    ELSE LET r == IF op = "append" THEN TableAppend(c.tables, c.table, input_data.rows, opOk)
                  ELSE TableOverwrite(c.tables, c.table, input_data.rows, opOk)
         IN [raised |-> r.raised, error |-> ExternalError(op),
             tables |-> r.tables, calls |-> <<r.call>>]

\* the end of write once the data operation d has run: the success line is printed
\* only when nothing was raised
AfterDataOp(c, d, out, destination, mode) ==
    IF d.raised
    THEN WriteResult(d.tables, c.calls \o d.calls, d.error, out)
    ELSE WriteResult(d.tables, c.calls \o d.calls, NoError,
                     out \o <<WriteSuccess(destination, mode)>>)

\* a variant that treats every mode but overwrite as append
write_default_append(cat, input_data, destination, mode, createOk, opOk) ==
    LET v == validate_data(input_data)
    IN IF Raised(v.error) THEN WriteResult(cat, <<>>, v.error, v.stdout)
       ELSE LET c == create_table_from_pyarrow(cat, input_data, destination, createOk)
                out == v.stdout \o c.stdout
            IN IF mode = "overwrite"
               THEN AfterDataOp(c, DataOp(c, "overwrite", input_data, opOk), out, destination, mode)
               ELSE AfterDataOp(c, DataOp(c, "append", input_data, opOk), out, destination, mode)

write(cat, input_data, destination, mode, createOk, opOk) ==
    LET v == validate_data(input_data)
    IN IF Raised(v.error) THEN WriteResult(cat, <<>>, v.error, v.stdout)
       ELSE LET c == create_table_from_pyarrow(cat, input_data, destination, createOk)
                out == v.stdout \o c.stdout
            IN IF mode = "append"
               THEN AfterDataOp(c, DataOp(c, "append", input_data, opOk), out, destination, mode)
               ELSE IF mode = "overwrite"
               THEN AfterDataOp(c, DataOp(c, "overwrite", input_data, opOk), out, destination, mode)
               ELSE WriteResult(c.tables, c.calls,
                                ValueError(<<"Unsupported write mode: ", mode>>), out)

----------------------------------------------------------------------------
(* dataos_utils: the environment accessor *)

\* os.getenv(key, default), then the check for None
get_env_var(e, key, default) ==
    LET value == Get(e, key, default)
    IN IF value = NoneVal
       THEN [value |-> NoneVal,
             error |-> ValueError(<<"Environment variable '", key, "' is required but not set.">>)]
       ELSE [value |-> value, error |-> NoError]

\* a dict display {k1: get_env_var(v1, d1), ...}: the entries are evaluated in
\* order and the first one that raises ends the evaluation
Entry(k, v, d) == [key |-> k, var |-> v, default |-> d]

DictFromEnv(e, entries) ==
    LET reads == [i \in 1..Len(entries) |-> get_env_var(e, entries[i].var, entries[i].default)]
        failing == {i \in 1..Len(entries) : Raised(reads[i].error)}
        first == CHOOSE i \in failing : \A j \in failing : i <= j
        keys == {entries[i].key : i \in 1..Len(entries)}
    IN IF failing # {}
       THEN [value |-> EmptyDict, error |-> reads[first].error]
       ELSE [value |-> [k \in keys |->
                           reads[CHOOSE i \in 1..Len(entries) :
                                    /\ entries[i].key = k
                                    /\ \A j \in 1..Len(entries) : entries[j].key = k => j <= i].value],
             error |-> NoError]

DestinationEntries ==
    << Entry("cloud_provider", "DESTINATION__ICEBERG__CONFIG__CLOUD_PROVIDER", NoneVal),
       Entry("catalog", "DESTINATION__ICEBERG__CONFIG__CATALOG", NoneVal),
       Entry("warehouse_path", "DESTINATION__ICEBERG__CONFIG__WAREHOUSE_PATH", NoneVal),
       Entry("metastore_url", "DESTINATION__ICEBERG__CONFIG__METASTORE_URL", NoneVal),
       Entry("table", "DESTINATION__ICEBERG__CONFIG__TABLE", "dlt_default_table"),
       Entry("namespace", "DESTINATION__ICEBERG__CONFIG__NAMESPACE", "dlt_default_namespace") >>

get_iceberg_destination_config(e) == DictFromEnv(e, DestinationEntries)

GcsEntries ==
    << Entry("project-is", "GCS__CREDENTIALS__PROJECT_ID", NoneVal),
       Entry("secret_file_path", "GCS__CREDENTIALS__SECRET_FILE_PATH", NoneVal) >>

AbfssEntries ==
    << Entry("azureendpointsuffix", "ABFSS__CREDENTIALS__AZUREENDPOINTSUFFIX", NoneVal),
       Entry("azurestorageaccountname", "ABFSS__CREDENTIALS__AZURESTORAGEACCOUNTNAME", NoneVal),
       Entry("azurestorageaccountkey", "ABFSS__CREDENTIALS__AZURESTORAGEACCOUNTKEY", NoneVal) >>

S3Entries ==
    << Entry("aws_access_key_id", "S3__CREDENTIALS__AWS_ACCESS_KEY_ID", NoneVal),
       Entry("aws_secret_access_key", "S3__CREDENTIALS__AWS_SECRET_ACCESS_KEY", NoneVal),
       Entry("region", "S3__CREDENTIALS__REGION", "ap-south-1") >>

get_iceberg_credentials(e, cloud_provider) ==
    IF cloud_provider = "gcs" THEN DictFromEnv(e, GcsEntries)
    ELSE IF cloud_provider = "abfss" THEN DictFromEnv(e, AbfssEntries)
    ELSE IF cloud_provider = "s3" THEN DictFromEnv(e, S3Entries)
    ELSE [value |-> EmptyDict, error |-> NoError]

----------------------------------------------------------------------------
(* pipeline.iceberg_insert: the sink callback *)

NoInput == [columnar |-> FALSE, schema |-> "", rows |-> <<>>]

\* PyArrowTable.from_batches(batches=[resources])
from_batches(resources) ==
    [columnar |-> TRUE, schema |-> resources.schema, rows |-> resources.rows]

InsertSuccess(full_table_path) ==
    <<"Data successfully written to Iceberg table ", full_table_path, "!">>

InsertResult(cat, provider, input, destination, mode, loads, tokens, calls, error, stdout) ==
    [tables |-> cat, provider |-> provider, input |-> input, destination |-> destination,
     mode |-> mode, loads |-> loads, tokens |-> tokens, calls |-> calls,
     error |-> error, stdout |-> stdout]

\* a variant of the sink that appends
SinkModeAppend == "append"

\* the mode the sink passes to write
SinkMode == "overwrite"

\* the table name the sink writes to
SinkTableName(iceberg_connection, data_dict) ==
    IF Get(iceberg_connection, "table", NoneVal) # "dlt_default_table"
    THEN Get(iceberg_connection, "table", NoneVal)
    ELSE Get(data_dict, "name", "")

iceberg_insert(e, cat, resources, data_dict, now, tokenOk, createOk, opOk) ==
    LET destination_config == get_iceberg_destination_config(e)
        cloud_provider == Get(destination_config.value, "cloud_provider", "")
        destination_credentials == get_iceberg_credentials(e, cloud_provider)
        iceberg_connection == Merge(destination_config.value, destination_credentials.value)
        iceberg_writer == IcebergWriterInit(iceberg_connection, now, tokenOk)
        table_name == SinkTableName(iceberg_connection, data_dict)
        namespace == Get(iceberg_connection, "namespace", NoneVal)
        full_table_path == namespace \o "." \o table_name
        pyarrow_table == from_batches(resources)
        w == write(cat, pyarrow_table, full_table_path, SinkMode, createOk, opOk)
    IN IF Raised(destination_config.error)
       THEN InsertResult(cat, NoneVal, NoInput, "", "", <<>>, <<>>, <<>>,
                         destination_config.error, <<>>)
       ELSE IF Raised(destination_credentials.error)
       THEN InsertResult(cat, cloud_provider, NoInput, "", "", <<>>, <<>>, <<>>,
                         destination_credentials.error, <<>>)
       ELSE IF ~iceberg_writer.ok
       THEN InsertResult(cat, cloud_provider, NoInput, "", "", iceberg_writer.loads,
                         iceberg_writer.tokens, <<>>, iceberg_writer.error, <<>>)
       ELSE IF Raised(w.error)
       THEN InsertResult(w.tables, cloud_provider, pyarrow_table, full_table_path, SinkMode,
                         iceberg_writer.loads, iceberg_writer.tokens, w.calls, w.error, w.stdout)
       ELSE InsertResult(w.tables, cloud_provider, pyarrow_table, full_table_path, SinkMode,
                         iceberg_writer.loads, iceberg_writer.tokens, w.calls, NoError,
                         w.stdout \o <<InsertSuccess(full_table_path)>>)

(* pipeline.load_select_collection_db *)

SourcesVar == "SOURCES__MONGODB__COLLECTION_NAMES"

\* str.split(","), over the values the environments below give the variable
Split(value) ==
    IF value = "users,orders" THEN <<"users", "orders">> ELSE <<value>>

\* os.getenv(SourcesVar).split(","): None has no split
collection_names(e) ==
    LET value == Get(e, SourcesVar, NoneVal)
    IN IF value = NoneVal
       THEN [value |-> <<>>, error |-> AttributeError("split")]
       ELSE [value |-> Split(value), error |-> NoError]

----------------------------------------------------------------------------
(* Inputs *)

\* tables of 0..n rows
RowSeqs(n) == {[i \in 1..k |-> "r1"] : k \in 0..n}
Schemas == {"schema_a", "schema_b"}
\* a PyArrow table, or something else with a length (a list of rows)
Inputs ==
    {[columnar |-> TRUE, schema |-> s, rows |-> r] : s \in Schemas, r \in RowSeqs(MaxRows)}
    \cup {[columnar |-> FALSE, schema |-> "", rows |-> r] : r \in RowSeqs(MaxRows)}
\* the record batches the source yields: an empty one and two that differ
Batches == {[schema |-> "schema_a", rows |-> r] : r \in {<<>>, <<"b1">>, <<"b2">>}}
\* what the external libraries do in one operation
Outcomes == {"ok", "token_raises", "create_raises", "op_raises"}
Destinations == {"ns.tbl", "ns.users"}
Modes == {"append", "overwrite", "upsert"}
Clock == {1700000000, 1700000001}

SupportedProviders == {"s3", "abfss", "gcs"}
ProviderValues == SupportedProviders \cup {"azure"}

ConnectionKeys ==
    {"cloud_provider", "catalog", "warehouse_path", "metastore_url", "table", "namespace",
     "aws_access_key_id", "aws_secret_access_key", "region",
     "azureendpointsuffix", "azurestorageaccountname", "azurestorageaccountkey",
     "project-id", "secret_file_path", "scopes"}

\* a connection dictionary carrying every key any provider reads
FullConnection(p) ==
    [k \in ConnectionKeys |-> IF k = "cloud_provider" THEN p ELSE "c:" \o k]

Without(d, keys) == [k \in DOMAIN d \ keys |-> d[k]]

\* complete dictionaries, dictionaries lacking one key, with empty scopes, and
\* dictionaries holding the provider alone
Connections ==
    UNION {
        {FullConnection(p), [FullConnection(p) EXCEPT !["scopes"] = ""],
         Without(FullConnection(p), ConnectionKeys \ {"cloud_provider"})}
        \cup {Without(FullConnection(p), {k}) : k \in ConnectionKeys}
        : p \in ProviderValues}

EnvVars ==
    {"DESTINATION__ICEBERG__CONFIG__CLOUD_PROVIDER", "DESTINATION__ICEBERG__CONFIG__CATALOG",
     "DESTINATION__ICEBERG__CONFIG__WAREHOUSE_PATH", "DESTINATION__ICEBERG__CONFIG__METASTORE_URL",
     "DESTINATION__ICEBERG__CONFIG__TABLE", "DESTINATION__ICEBERG__CONFIG__NAMESPACE",
     "GCS__CREDENTIALS__PROJECT_ID", "GCS__CREDENTIALS__SECRET_FILE_PATH",
     "ABFSS__CREDENTIALS__AZUREENDPOINTSUFFIX", "ABFSS__CREDENTIALS__AZURESTORAGEACCOUNTNAME",
     "ABFSS__CREDENTIALS__AZURESTORAGEACCOUNTKEY",
     "S3__CREDENTIALS__AWS_ACCESS_KEY_ID", "S3__CREDENTIALS__AWS_SECRET_ACCESS_KEY",
     "S3__CREDENTIALS__REGION", SourcesVar}

\* the secret variables get_iceberg_credentials reads for a provider
SecretVars(p) ==
    IF p = "gcs" THEN {GcsEntries[i].var : i \in 1..Len(GcsEntries)}
    ELSE IF p = "abfss" THEN {AbfssEntries[i].var : i \in 1..Len(AbfssEntries)}
    ELSE IF p = "s3" THEN {S3Entries[i].var : i \in 1..Len(S3Entries)}
    ELSE {}

FullEnv(p, t) ==
    [k \in EnvVars |->
        CASE k = "DESTINATION__ICEBERG__CONFIG__CLOUD_PROVIDER" -> p
          [] k = "DESTINATION__ICEBERG__CONFIG__TABLE" -> t
          [] k = "DESTINATION__ICEBERG__CONFIG__NAMESPACE" -> "ns"
          [] k = "S3__CREDENTIALS__REGION" -> "eu-west-1"
          [] k = SourcesVar -> "users,orders"
          [] OTHER -> "$" \o k]

\* every variable set, less at most one
Environments ==
    UNION {
        {Without(FullEnv(p, t), unset) : unset \in {{}} \cup {{k} : k \in EnvVars}}
        : p \in ProviderValues, t \in {"tbl", "dlt_default_table"}}

----------------------------------------------------------------------------
(* State machine *)

NoWriter == [constructed |-> FALSE, catalog |-> EmptyDict]
NoTables == [d \in {} |-> <<>>]

Last(op, provider, input, destination, mode, loads, tokens, calls, error, stdout) ==
    [op |-> op, provider |-> provider, input |-> input, destination |-> destination,
     mode |-> mode, loads |-> loads, tokens |-> tokens, calls |-> calls,
     error |-> error, stdout |-> stdout]

NoOp == Last("none", NoneVal, NoInput, "", "", <<>>, <<>>, <<>>, NoError, <<>>)

\* the binding of the new writer: a constructor that raises binds nothing
Bind(old, r) == IF r.ok THEN [constructed |-> TRUE, catalog |-> r.catalog] ELSE old

(* Constructing writers *)

InitConstruct ==
    /\ env = EmptyDict
    /\ writer = NoWriter
    /\ tables = NoTables
    /\ last = NoOp
    /\ pc = "api"

\* w = IcebergWriter(connection)
NewIcebergWriter ==
    /\ pc = "api"
    /\ \E connection \in Connections, now \in Clock, tokenOk \in BOOLEAN :
        \E r \in {IcebergWriterInit(connection, now, tokenOk)} :
           /\ writer' = Bind(writer, r)
           /\ last' = Last("IcebergWriter", Get(connection, "cloud_provider", NoneVal), NoInput,
                           "", "", r.loads, r.tokens, <<>>, r.error, <<>>)
    /\ UNCHANGED <<env, tables, pc>>

\* w = Writer.create_writer(connection)
CreateWriter ==
    /\ pc = "api"
    /\ \E connection \in Connections, now \in Clock, tokenOk \in BOOLEAN :
        \E r \in {create_writer(connection, now, tokenOk)} :
           /\ writer' = Bind(writer, r)
           /\ last' = Last("create_writer", Get(connection, "cloud_provider", NoneVal), NoInput,
                           "", "", r.loads, r.tokens, <<>>, r.error, <<>>)
    /\ UNCHANGED <<env, tables, pc>>

NextConstruct == NewIcebergWriter \/ CreateWriter

SpecConstruct == InitConstruct /\ [][NextConstruct]_vars

(* Writing through a constructed writer *)

\* the provider a constructed writer was built for, read off its catalog parameters
ProviderOf(catalog) ==
    IF "s3.region" \in DOMAIN catalog THEN "s3"
    ELSE IF "adls.account-name" \in DOMAIN catalog THEN "abfss"
    ELSE IF "gcs.project-id" \in DOMAIN catalog THEN "gcs"
    ELSE NoneVal

\* a writer of each provider, built from its full settings, on an empty catalog
Init ==
    /\ env = EmptyDict
    /\ \E p \in SupportedProviders, now \in Clock :
          writer = Bind(NoWriter, IcebergWriterInit(FullConnection(p), now, TRUE))
    /\ tables = NoTables
    /\ last = NoOp
    /\ pc = "api"

\* w.write(input_data, destination, mode)
Write ==
    /\ pc = "api"
    /\ writer.constructed
    /\ \E input_data \in Inputs, destination \in Destinations, mode \in Modes,
          outcome \in Outcomes \ {"token_raises"} :
        /\ mode = "append" =>
              Len(Get(tables, destination, <<>>)) + Len(input_data.rows) <= MaxTableRows
        /\ \E r \in {write(tables, input_data, destination, mode,
                           outcome # "create_raises", outcome # "op_raises")} :
              /\ tables' = r.tables
              /\ last' = Last("write", ProviderOf(writer.catalog), input_data, destination, mode,
                              <<>>, <<>>, r.calls, r.error, r.stdout)
    /\ UNCHANGED <<env, writer, pc>>

Next == Write

Spec == Init /\ [][Next]_vars

(* The pipeline run: python pipeline.py *)

InitPipeline ==
    /\ env \in Environments
    /\ writer = NoWriter
    /\ tables = NoTables
    /\ last = NoOp
    /\ pc = "start"

\* load_select_collection_db up to pipeline.run
LoadSelectCollectionDb ==
    /\ pc = "start"
    /\ LET c == collection_names(env)
       IN /\ pc' = IF Raised(c.error) THEN "failed" ELSE "running"
          /\ last' = Last("load_select_collection_db", NoneVal, NoInput, "", "",
                          <<>>, <<>>, <<>>, c.error, <<>>)
    /\ UNCHANGED <<env, writer, tables>>

\* pipeline.run hands one batch of one collection to the sink; an exception of
\* the sink ends the run
IcebergInsert ==
    /\ pc = "running"
    /\ \E resources \in Batches, i \in 1..Len(collection_names(env).value),
          now \in Clock, outcome \in Outcomes :
        \E r \in {iceberg_insert(env, tables, resources, [name |-> collection_names(env).value[i]],
                                 now, outcome # "token_raises", outcome # "create_raises",
                                 outcome # "op_raises")} :
           /\ tables' = r.tables
           /\ last' = Last("iceberg_insert", r.provider, r.input, r.destination, r.mode,
                           r.loads, r.tokens, r.calls, r.error, r.stdout)
           /\ pc' = IF Raised(r.error) THEN "failed" ELSE "running"
    /\ UNCHANGED <<env, writer>>

\* pipeline.run returns its load info
RunReturns ==
    /\ pc = "running"
    /\ pc' = "done"
    /\ UNCHANGED <<env, writer, tables, last>>

NextPipeline == LoadSelectCollectionDb \/ IcebergInsert \/ RunReturns

SpecPipeline == InitPipeline /\ [][NextPipeline]_vars

----------------------------------------------------------------------------
(* Properties *)

ConstructOps == {"IcebergWriter", "create_writer"}

\* the catalog parameters each provider needs
RequiredKeys(p) ==
    IF p = "s3" THEN {"uri", "s3.access-key-id", "s3.secret-access-key", "s3.region"}
    ELSE IF p = "abfss" THEN {"py-io-impl", "adls.account-name", "adls.account-key", "uri"}
    ELSE {"py-io-impl", "uri", "gcs.project-id", "gcs.default-bucket-location",
          "gcs.oauth2.token-expires-at", "gcs.oauth2.token"}

\* the parameters that belong to one provider only
OwnKeys(p) == RequiredKeys(p) \ {"uri", "py-io-impl"}

DataOps == {"append", "overwrite"}
DataCalls(calls) == {i \in 1..Len(calls) : calls[i].op \in DataOps}
CallsOf(calls, op) == {i \in 1..Len(calls) : calls[i].op = op}
Printed(line) == \E i \in 1..Len(last.stdout) : last.stdout[i] = line
ValidInput(input) == input.columnar /\ Len(input.rows) > 0
CreateRaised == Len(last.calls) >= 1 /\ ~last.calls[1].ok

\* C1: constructing a writer for s3, abfss or gcs, whatever else the connection
\* holds or lacks, loads exactly one catalog, with exactly the keys of that
\* provider and none that belongs to another; only a failed token fetch (gcs)
\* keeps the catalog from being loaded.
C1_ProviderKeys ==
    (last.op \in ConstructOps /\ last.provider \in SupportedProviders) =>
        /\ Raised(last.error) =>
              /\ last.provider = "gcs"
              /\ last.error.type = "ExternalError"
              /\ last.loads = <<>>
        /\ ~Raised(last.error) =>
              /\ Len(last.loads) = 1
              /\ last.loads[1].name = CatalogName
              /\ DOMAIN last.loads[1].params = RequiredKeys(last.provider)
              /\ \A q \in SupportedProviders \ {last.provider} :
                    DOMAIN last.loads[1].params \cap OwnKeys(q) = {}
              /\ writer.constructed
              /\ DOMAIN writer.catalog = RequiredKeys(last.provider)

C1_Witness ==
    /\ last.op = "IcebergWriter"
    /\ last.provider = "s3"
    /\ Len(last.loads) = 1
    /\ last.loads[1].params["s3.region"] = "ap-south-1"

\* C2: constructing a writer, directly or through create_writer, with a
\* cloud_provider outside {s3, abfss, gcs} or with none raises a ValueError about
\* the provider, loads no catalog and fetches no token.
C2_UnsupportedProvider ==
    (last.op \in ConstructOps /\ last.provider \notin SupportedProviders) =>
        /\ last.error.type = "ValueError"
        /\ last.loads = <<>>
        /\ last.tokens = <<>>

C2_Witness ==
    /\ last.op = "IcebergWriter"
    /\ last.provider = NoneVal
    /\ last.error = UnsupportedProviderInit
    /\ ~writer.constructed

\* C3: a write of an empty table, or of something that is not a columnar table,
\* raises a ValueError and makes no call to the catalog, for every mode.
C3_InvalidInputNoCatalog ==
    (last.op = "write" /\ ~ValidInput(last.input)) =>
        /\ last.error.type = "ValueError"
        /\ last.calls = <<>>
        /\ ~Printed(WriteSuccess(last.destination, last.mode))

C3_Witness ==
    /\ last.op = "write"
    /\ last.input.columnar
    /\ last.input.rows = <<>>
    /\ last.mode = "overwrite"
    /\ last.error.type = "ValueError"

\* C4: a write with a mode other than append and overwrite raises an error, for
\* every input and whether or not the table could be created; it calls neither
\* append nor overwrite and prints no success line.
C4_UnsupportedMode ==
    (last.op = "write" /\ last.mode \notin DataOps) =>
        /\ Raised(last.error)
        /\ last.error.type = "ValueError"
        /\ DataCalls(last.calls) = {}
        /\ ~Printed(WriteSuccess(last.destination, last.mode))

C4_Witness ==
    /\ last.op = "write"
    /\ last.mode = "upsert"
    /\ ValidInput(last.input)
    /\ Len(last.calls) = 1
    /\ last.calls[1].ok
    /\ last.error = ValueError(<<"Unsupported write mode: ", "upsert">>)

\* C6: through a writer built from the full S3 settings, an append of a
\* non-empty table never calls overwrite and calls append at most once; when no
\* catalog call raises it calls append exactly once, raises nothing and the
\* rows are in the destination table.
C6_S3AppendOnce ==
    (/\ last.op = "write"
     /\ last.provider = "s3"
     /\ writer.catalog = S3Params(FullConnection("s3"))
     /\ ValidInput(last.input)
     /\ last.mode = "append") =>
        /\ CallsOf(last.calls, "overwrite") = {}
        /\ Cardinality(CallsOf(last.calls, "append")) <= 1
        /\ (\A i \in 1..Len(last.calls) : last.calls[i].ok) =>
              /\ Cardinality(CallsOf(last.calls, "append")) = 1
              /\ ~Raised(last.error)
              /\ Printed(WriteSuccess(last.destination, "append"))
              /\ last.destination \in DOMAIN tables
              /\ LET t == tables[last.destination]
                 IN SubSeq(t, Len(t) - Len(last.input.rows) + 1, Len(t)) = last.input.rows

C6_Witness ==
    /\ last.op = "write"
    /\ last.provider = "s3"
    /\ last.destination = "ns.tbl"
    /\ last.mode = "append"
    /\ ~Raised(last.error)
    /\ Cardinality(CallsOf(last.calls, "append")) = 1
    /\ Len(tables["ns.tbl"]) = 2

\* C7: a write calls the catalog only after validation has passed; its first
\* call is create_table_if_not_exists for the destination with the schema of the
\* incoming table; a data operation is at most one, comes second, acts on the
\* same destination with the incoming rows, and is the one the mode names.
C7_WriteOrder ==
    last.op = "write" =>
        /\ last.calls # <<>> => ValidInput(last.input)
        /\ ValidInput(last.input) =>
              /\ Len(last.calls) >= 1
              /\ last.calls[1].op = "create_table_if_not_exists"
              /\ last.calls[1].dest = last.destination
              /\ last.calls[1].schema = last.input.schema
        /\ Len(last.calls) <= 2
        /\ \A i \in DataCalls(last.calls) :
              /\ i = 2
              /\ last.calls[1].ok
              /\ last.calls[i].dest = last.destination
              /\ last.calls[i].rows = last.input.rows
              /\ last.calls[i].op = last.mode
        /\ (ValidInput(last.input) /\ last.mode \in DataOps /\ ~CreateRaised) =>
              Cardinality(DataCalls(last.calls)) = 1

C7_Witness ==
    /\ last.op = "write"
    /\ last.destination = "ns.users"
    /\ last.mode = "overwrite"
    /\ Len(last.calls) = 2
    /\ last.calls[2].op = "overwrite"
    /\ "ns.tbl" \in DOMAIN tables

\* C8: when create_table_if_not_exists raises during a write, the exception is
\* swallowed (a line is printed, the catalog's exception is not what the write
\* raises), no append or overwrite is called, no success line is printed, and
\* the write still ends in an error: the attribute error of the missing table
\* for append and overwrite, the mode error otherwise.
C8_CreateFailure ==
    (last.op = "write" /\ CreateRaised) =>
        /\ Printed(<<"Exception while creating table '", last.destination, "'.">>)
        /\ DataCalls(last.calls) = {}
        /\ ~Printed(WriteSuccess(last.destination, last.mode))
        /\ Raised(last.error)
        /\ last.error.type # "ExternalError"
        /\ last.mode \in DataOps => last.error = AttributeError(last.mode)
        /\ last.mode \notin DataOps => last.error.type = "ValueError"

C8_Witness ==
    /\ last.op = "write"
    /\ CreateRaised
    /\ last.mode = "append"
    /\ last.error = AttributeError("append")
    /\ last.destination \in DOMAIN tables

\* the variables that have no default: the destination settings, the secrets
\* of the selected provider and the collection names
RequiredVars(e) ==
    {"DESTINATION__ICEBERG__CONFIG__CLOUD_PROVIDER", "DESTINATION__ICEBERG__CONFIG__CATALOG",
     "DESTINATION__ICEBERG__CONFIG__WAREHOUSE_PATH", "DESTINATION__ICEBERG__CONFIG__METASTORE_URL"}
    \cup (SecretVars(Get(e, "DESTINATION__ICEBERG__CONFIG__CLOUD_PROVIDER", NoneVal))
            \ {"S3__CREDENTIALS__REGION"})
    \cup {SourcesVar}

MissingVars == RequiredVars(env) \ DOMAIN env

\* C5: a run with a required variable unset never gets a batch written, and
\* when it fails it fails with a ValueError whose message names an unset required
\* variable; a run with every required variable set never fails with an error
\* that names an environment variable.
C5_MissingVarNamed ==
    /\ (pc = "failed" /\ MissingVars # {}) =>
          /\ last.error.type = "ValueError"
          /\ \E k \in MissingVars : Mentions(last.error, k)
    /\ (MissingVars # {} /\ last.op = "iceberg_insert") => Raised(last.error)
    /\ (pc = "failed" /\ MissingVars = {}) =>
          \A k \in EnvVars : ~Mentions(last.error, k)

\* the namespace-qualified names the sink may write to under the environment
SinkDestinations ==
    LET ns == Get(env, "DESTINATION__ICEBERG__CONFIG__NAMESPACE", "dlt_default_namespace")
        t == Get(env, "DESTINATION__ICEBERG__CONFIG__TABLE", "dlt_default_table")
        names == collection_names(env).value
    IN IF t # "dlt_default_table" THEN {ns \o "." \o t}
       ELSE {ns \o "." \o names[i] : i \in 1..Len(names)}

\* C9: an invocation of the sink makes at most one data call, never an append;
\* when it gets to write, the mode is overwrite and the destination is
\* "<namespace>.<table name>"; when it succeeds it has made exactly one overwrite
\* call with the rows of its batch, and the destination table then holds exactly
\* those rows, whatever earlier batches had put there.
C9_SinkOverwrites ==
    last.op = "iceberg_insert" =>
        /\ CallsOf(last.calls, "append") = {}
        /\ Cardinality(DataCalls(last.calls)) <= 1
        /\ last.calls # <<>> =>
              /\ last.mode = "overwrite"
              /\ last.destination \in SinkDestinations
              /\ \A i \in 1..Len(last.calls) : last.calls[i].dest = last.destination
        /\ ~Raised(last.error) =>
              /\ Cardinality(CallsOf(last.calls, "overwrite")) = 1
              /\ last.calls[2].rows = last.input.rows
              /\ Printed(InsertSuccess(last.destination))
              /\ last.destination \in DOMAIN tables
              /\ tables[last.destination] = last.input.rows

C9_Witness ==
    /\ last.op = "iceberg_insert"
    /\ ~Raised(last.error)
    /\ last.destination = "dlt_default_namespace.tbl"
    /\ last.input.rows = <<"b2">>
    /\ tables["dlt_default_namespace.tbl"] = <<"b2">>

\* C10: whenever the sink loads a catalog, the secrets of the selected provider
\* in the catalog parameters are the values the environment gives: the S3 key
\* pair and region, the ABFSS account name and key, the GCS project id and the
\* service-account file.
C10_SecretsReachCatalog ==
    (last.op = "iceberg_insert" /\ Len(last.loads) = 1) =>
        LET params == last.loads[1].params
        IN /\ last.provider = "s3" =>
                /\ params["s3.access-key-id"] = env["S3__CREDENTIALS__AWS_ACCESS_KEY_ID"]
                /\ params["s3.secret-access-key"] = env["S3__CREDENTIALS__AWS_SECRET_ACCESS_KEY"]
                /\ params["s3.region"] = Get(env, "S3__CREDENTIALS__REGION", "ap-south-1")
           /\ last.provider = "abfss" =>
                /\ params["adls.account-name"] = env["ABFSS__CREDENTIALS__AZURESTORAGEACCOUNTNAME"]
                /\ params["adls.account-key"] = env["ABFSS__CREDENTIALS__AZURESTORAGEACCOUNTKEY"]
           /\ last.provider = "gcs" =>
                /\ params["gcs.oauth2.token"].file = env["GCS__CREDENTIALS__SECRET_FILE_PATH"]
                /\ params["gcs.project-id"] = env["GCS__CREDENTIALS__PROJECT_ID"]

====
